---- MODULE Spec2Model ----
(***************************************************************************)
(* MomentLoop: the media delivery pipeline (server: /process-video,        *)
(* VideoProcessingService, PushNotificationService) and the receiver       *)
(* (notification list, VideoPlayer).                                       *)
(*                                                                         *)
(* A JavaScript string is a sequence of one-character strings, so that     *)
(* toLowerCase, endsWith, replace, join and split act on characters.       *)
(***************************************************************************)
EXTENDS Integers, Sequences, FiniteSets, TLC

VARIABLES
    serverUrl,   \* server.ts: SERVER_URL || '' handed to VideoProcessingService
    call,        \* one direct call of VideoProcessingService.processVideo
    serverUp,    \* the server process is running
    req,         \* the /process-video requests, by arrival order
    notifications, \* receiver App: the notifications state, newest first
    lastOp,      \* receiver App: the operation the last step applied to the list
    vp,          \* receiver VideoPlayer: its state hooks, props, ref, timers, player
    hist,        \* receiver VideoPlayer: what has happened to it (observation only)
    up,          \* sender: one call of uploadToSynology
    push,        \* one direct call of a PushNotificationService method
    watch        \* convert-mov-to-mp4.sh: the shared directory and the script's run

vars == <<serverUrl, call, serverUp, req, notifications, lastOp, vp, hist, up, push, watch>>

\* the variables of the server, and those of the direct call
srvVars == <<serverUp, req>>
pvVars == <<call>>
rcvVars == <<notifications, lastOp>>
vpVars == <<vp, hist>>
sndVars == <<up, push>>
wchVars == <<watch>>

----------------------------------------------------------------------------
(* Bounds of the model *)

\* longest object name, in tokens of NameTokens
MaxNameLen == 3

\* number of /process-video requests
MaxReq == 2

\* longest videoName of a request, in tokens of NameTokens
MaxReqNameLen == 1

\* number of distinct media URLs the receiver is sent
MaxUrls == 3

\* longest notifications list
MaxList == 4

\* number of timer ids setTimeout hands out while others are live
MaxTimerIds == 2

\* the natural ends of media counted beyond MAX_REPLAYS
MaxExtraEnds == 1

\* runs of convert-mov-to-mp4.sh (cron starts one every minute)
MaxScans == 2

\* calls of processVideo for the uploaded file
MaxTranscodes == 2

----------------------------------------------------------------------------
(* Strings *)

DotMov == <<".", "m", "o", "v">>
DotMOV == <<".", "M", "O", "V">>
DotMp4 == <<".", "m", "p", "4">>
Slash == <<"/">>

\* the pieces object names are built from
NameTokens == {<<"a">>, DotMov, DotMOV, DotMp4, Slash}

RECURSIVE Flatten(_)
Flatten(ss) == IF ss = <<>> THEN <<>> ELSE Head(ss) \o Flatten(Tail(ss))

\* every name of at most n tokens (the empty name included)
Names(n) == {Flatten(ts) : ts \in UNION {[1..k -> NameTokens] : k \in 0..n}}

\* String.prototype.toLowerCase on the letters the names use
LowerChar(c) ==
    CASE c = "M" -> "m"
      [] c = "O" -> "o"
      [] c = "V" -> "v"
      [] OTHER -> c

toLowerCase(s) == [i \in 1..Len(s) |-> LowerChar(s[i])]

\* String.prototype.endsWith
endsWith(s, suffix) ==
    /\ Len(suffix) <= Len(s)
    /\ SubSeq(s, Len(s) - Len(suffix) + 1, Len(s)) = suffix

\* the positions where pat occurs in s
Occurrences(s, pat) ==
    {i \in 1..(Len(s) - Len(pat) + 1) : SubSeq(s, i, i + Len(pat) - 1) = pat}

\* String.prototype.replace with a string pattern: the first occurrence only,
\* compared case-sensitively
replace(s, pat, rep) ==
    IF Occurrences(s, pat) = {} THEN s
    ELSE LET i == CHOOSE k \in Occurrences(s, pat) :
                      \A j \in Occurrences(s, pat) : k <= j
         IN SubSeq(s, 1, i - 1) \o rep \o SubSeq(s, i + Len(pat), Len(s))

\* std/path normalize on paths without "." and ".." segments: runs of "/"
\* become one "/", a trailing "/" is kept
RECURSIVE normalize(_)
normalize(p) ==
    IF Len(p) <= 1 THEN p
    ELSE IF p[1] = "/" /\ p[2] = "/" THEN normalize(Tail(p))
    ELSE <<p[1]>> \o normalize(Tail(p))

\* std/path join of two segments: empty segments are dropped, the rest joined
\* with "/" and normalized
join(dir, name) ==
    IF name = <<>> THEN normalize(dir)
    ELSE IF dir = <<>> THEN normalize(name)
    ELSE normalize(dir \o Slash \o name)

\* finalVideoPath.split('/').pop() || '': what follows the last "/"
RECURSIVE splitPop(_)
splitPop(p) ==
    IF p = <<>> THEN <<>>
    ELSE IF Head(p) = "/" /\ \A i \in 2..Len(p) : p[i] # "/" THEN Tail(p)
    ELSE IF \A i \in 1..Len(p) : p[i] # "/" THEN p
    ELSE splitPop(Tail(p))

----------------------------------------------------------------------------
(* Values of the receiver's state before anything has happened *)

\* a field of notification.request.content.data that is absent, and the
\* empty string; the media URLs are 1..MaxUrls
Undefined == -1
EmptyString == 0

\* no operation was applied to the notifications list yet
NoOp == [op |-> "none", mediaUrl |-> Undefined, mediaType |-> "<undefined>"]

\* the uri props a VideoPlayer is given
Uris == {"uriA", "uriB"}

\* a VideoPlayer right after its first render: the useState initial values,
\* the ref at null, no timer, and a player created for the uri that has
\* neither loaded nor been told to play
FirstRender(uri, isVisible) ==
    [mounted |-> TRUE, uri |-> uri, isVisible |-> isVisible,
     isLoading |-> TRUE, error |-> "null",
     replayCount |-> 0, hasReachedLimit |-> FALSE, retryCount |-> 0,
     retryTimeoutRef |-> 0, timers |-> {},
     status |-> "loading", loop |-> FALSE, playing |-> FALSE, pauseEvent |-> FALSE,
     cmds |-> <<>>]

\* no VideoPlayer is mounted
NoPlayer == [FirstRender("uriA", FALSE) EXCEPT !.mounted = FALSE, !.status = "idle"]

\* nothing has happened to the VideoPlayer
NoHistory ==
    [act |-> "none", ends |-> 0, pure |-> TRUE, reqs |-> 0, manual |-> FALSE,
     cancelled |-> FALSE, prev |-> [retryCount |-> 0, hasError |-> FALSE]]

(* Values of the sender's and of the push service's state before a call *)

\* no call of the gateway has ended
NoOutcome ==
    [fetch |-> "none", httpOk |-> FALSE, json |-> "none",
     errors |-> FALSE, itemError |-> FALSE]

\* no error has been thrown or reported
NoError == [kind |-> "none", code |-> "none", status |-> 0, request |-> FALSE]

NoUploadResult == [kind |-> "none", success |-> FALSE, url |-> "none", error |-> "none"]

NoUpload ==
    [pc |-> "idle", version |-> "none", settings |-> {}, isImage |-> FALSE,
     processedUri |-> "none", fileInfo |-> "none", probe |-> NoError,
     probed |-> FALSE, put |-> [thrown |-> FALSE, status |-> 0], requests |-> <<>>,
     result |-> NoUploadResult]

NoPushCall == [pc |-> "idle", fn |-> "none", gateway |-> NoOutcome, result |-> "none"]

(* The shared directory and the script before its first run *)

\* the directory holds the files of `files`; nothing has run
Directory(videoName, files) ==
    [videoName |-> videoName, files |-> files, produced |-> {},
     pc |-> "idle", todo |-> {}, file |-> <<>>, output_file |-> <<>>,
     scans |-> 0, transcodes |-> 0]

NoWatch == Directory(<<>>, {})

----------------------------------------------------------------------------
(* VideoProcessingService *)

\* VIDEOS_DIR, the default '/volumes/MomentLoop/' shortened to one segment
videosDir == <<"/", "v", "/">>

\* the values SERVER_URL || '' takes: unset, or a base URL
ServerUrls == {<<>>, <<"h", ":", "/", "/", "s">>}

isMovFile(filename) == endsWith(toLowerCase(filename), DotMov)

\* what convertMovToMp4 returns for each way the exec of ffmpeg can end
ExecOutcomes == {"exit0", "exitNonZero", "exception"}

convertMovToMp4Result(outcome) == outcome = "exit0"

\* the URL built from the full path instead of the file name
ProcessedVideoUrlFullPath(base, finalVideoPath) == base \o Slash \o finalVideoPath

ProcessedVideoUrl(base, finalVideoPath) == base \o Slash \o splitPop(finalVideoPath)

NoCall ==
    [pc |-> "idle", videoName |-> <<>>, inputPath |-> <<>>, outputPath |-> <<>>,
     finalVideoPath |-> <<>>, processedVideoUrl |-> <<>>, needsConversion |-> FALSE,
     execs |-> 0, found |-> "unknown"]

\* processVideo up to its first await (exists)
processVideoStart(videoName) ==
    [NoCall EXCEPT !.pc = "exists",
                   !.videoName = videoName,
                   !.inputPath = join(videosDir, videoName),
                   !.outputPath = join(videosDir, replace(videoName, DotMov, DotMp4))]

\* the return statement of processVideo
processVideoReturn(pv, base, finalVideoPath, needsConversion) ==
    [pv EXCEPT !.pc = "returned",
               !.finalVideoPath = finalVideoPath,
               !.needsConversion = needsConversion,
               !.processedVideoUrl = ProcessedVideoUrl(base, finalVideoPath)]

\* processVideo from the answer of exists to the await of exec, or to its end
processVideoExists(pv, base, found) ==
    IF ~found THEN [pv EXCEPT !.pc = "thrown", !.found = "no"]
    ELSE IF isMovFile(pv.videoName)
         THEN [pv EXCEPT !.pc = "exec", !.needsConversion = TRUE, !.found = "yes",
                         !.finalVideoPath = pv.inputPath, !.execs = pv.execs + 1]
         ELSE processVideoReturn([pv EXCEPT !.found = "yes"], base, pv.inputPath, FALSE)

\* a failed conversion is tried a second time
processVideoExecRetries(pv, base, outcome) ==
    IF convertMovToMp4Result(outcome)
    THEN processVideoReturn(pv, base, pv.outputPath, TRUE)
    ELSE IF pv.execs < 2 THEN [pv EXCEPT !.execs = pv.execs + 1]
    ELSE [pv EXCEPT !.pc = "thrown"]

\* processVideo from the end of convertMovToMp4 to its end
processVideoExec(pv, base, outcome) ==
    IF convertMovToMp4Result(outcome)
    THEN processVideoReturn(pv, base, pv.outputPath, TRUE)
    ELSE [pv EXCEPT !.pc = "thrown"]

----------------------------------------------------------------------------
(* A direct call of processVideo, for the claims about its result *)

InitTranscode ==
    /\ serverUrl \in ServerUrls
    /\ call = NoCall
    /\ serverUp = TRUE
    /\ req = <<>>
    /\ notifications = <<>>
    /\ lastOp = NoOp
    /\ vp = NoPlayer
    /\ hist = NoHistory
    /\ up = NoUpload
    /\ push = NoPushCall
    /\ watch = NoWatch

PVCall ==
    /\ call.pc \in {"idle", "returned", "thrown"}
    /\ \E name \in Names(MaxNameLen) : call' = processVideoStart(name)
    /\ UNCHANGED <<serverUrl, srvVars, rcvVars, vpVars, sndVars, wchVars>>

PVExistsResult ==
    /\ call.pc = "exists"
    /\ \E found \in BOOLEAN : call' = processVideoExists(call, serverUrl, found)
    /\ UNCHANGED <<serverUrl, srvVars, rcvVars, vpVars, sndVars, wchVars>>

PVExecResult ==
    /\ call.pc = "exec"
    /\ \E outcome \in ExecOutcomes : call' = processVideoExec(call, serverUrl, outcome)
    /\ UNCHANGED <<serverUrl, srvVars, rcvVars, vpVars, sndVars, wchVars>>

NextTranscode == PVCall \/ PVExistsResult \/ PVExecResult

SpecTranscode == InitTranscode /\ [][NextTranscode]_vars

----------------------------------------------------------------------------
(* PushNotificationService.sendPushNotification *)

\* request.body.expoPushToken: absent, empty, or a token
NoToken == "<undefined>"
PushTokens == {NoToken, "", "ExponentPushToken[x]"}

\* if (expoPushToken)
Truthy(token) == token # NoToken /\ token # ""

\* how the call of the push gateway can end: fetch rejects, or it resolves
\* with an HTTP status and a body that parses or not, with or without a
\* top-level errors field and a data item of status 'error'
GatewayOutcomes ==
    [fetch : {"rejects"}, httpOk : {FALSE}, json : {"none"},
     errors : {FALSE}, itemError : {FALSE}]
    \cup
    [fetch : {"resolves"}, httpOk : BOOLEAN, json : {"invalid"},
     errors : {FALSE}, itemError : {FALSE}]
    \cup
    [fetch : {"resolves"}, httpOk : BOOLEAN, json : {"valid"},
     errors : BOOLEAN, itemError : BOOLEAN]

\* the value sendPushNotification returns
sendPushNotificationResult(o) ==
    IF o.fetch = "rejects" \/ o.json = "invalid" THEN FALSE
    ELSE ~(o.errors \/ o.itemError)

\* the message handed to fetch
NoMessage == [to |-> NoToken, mediaUrl |-> <<>>, mediaType |-> "none"]

pushMessage(token, videoUrl) ==
    [to |-> token, mediaUrl |-> videoUrl, mediaType |-> "video"]

----------------------------------------------------------------------------
(* PushNotificationService called directly *)

\* the try block of sendPushNotification and of sendWakeDeviceNotification:
\* a rejected fetch and an unparsable body throw
gatewayTry(o) ==
    IF o.fetch = "rejects" \/ o.json = "invalid" THEN "throws"
    ELSE IF o.errors \/ o.itemError THEN "false"
    ELSE "true"

\* the error is let through to the caller
notificationCatchRethrows(t) == t

\* catch (error) { this.logger.error(...); return false; }
notificationCatch(t) == IF t = "throws" THEN "false" ELSE t

sendPushNotification(o) == notificationCatch(gatewayTry(o))

sendWakeDeviceNotification(o) == notificationCatch(gatewayTry(o))

PushMethods == {"sendPushNotification", "sendWakeDeviceNotification"}

NotifyCall ==
    /\ push.pc = "idle"
    /\ \E fn \in PushMethods : push' = [push EXCEPT !.pc = "fetch", !.fn = fn]
    /\ UNCHANGED <<serverUrl, srvVars, pvVars, rcvVars, vpVars, up, wchVars>>

NotifyResult ==
    /\ push.pc = "fetch"
    /\ \E o \in GatewayOutcomes :
         push' = [push EXCEPT
                    !.pc = "done",
                    !.gateway = o,
                    !.result = IF push.fn = "sendPushNotification"
                               THEN sendPushNotification(o)
                               ELSE sendWakeDeviceNotification(o)]
    /\ UNCHANGED <<serverUrl, srvVars, pvVars, rcvVars, vpVars, up, wchVars>>

----------------------------------------------------------------------------
(* Sender: uploadToSynology *)
(* Two versions are in the repository: utils/synologyUploader.ts, which    *)
(* reads the settings from secure storage and goes straight to the PUT, and *)
(* the one before it, which takes them from SYNOLOGY_CONFIG and sends a     *)
(* PROPFIND first.                                                           *)

SettingKeys == {"HOST", "USERNAME", "PASSWORD", "UPLOAD_PATH", "NGINX_HOST"}

\* getSynologySettings: null unless all five are stored
getSynologySettings(stored) == IF stored = SettingKeys THEN "settings" ELSE "null"

UploadVersions == {"secureStorage", "config"}

\* an Error that is not an AxiosError
OtherError == [kind |-> "other", code |-> "none", status |-> 0, request |-> FALSE]

\* the AxiosErrors of the PROPFIND: a timeout, a refused connection, no
\* response, or a response whose status validateStatus rejects
AxiosErrors ==
    {[kind |-> "axios", code |-> c, status |-> 0, request |-> TRUE] :
        c \in {"ECONNABORTED", "ECONNREFUSED", "none"}}
    \cup
    {[kind |-> "axios", code |-> "none", status |-> st, request |-> TRUE] :
        st \in {401, 404, 405, 500}}

\* how the PROPFIND can end; NoError is a 2xx answer
ProbeOutcomes == {NoError} \cup AxiosErrors \cup {OtherError}

FileInfoOutcomes == {"exists", "missing", "throws"}

ManipulateOutcomes == {"processed", "throws"}

\* how FileSystem.uploadAsync can end: it throws, or resolves with a status
NoPut == [thrown |-> FALSE, status |-> 0]
PutOutcomes ==
    {[thrown |-> TRUE, status |-> 0]}
    \cup {[thrown |-> FALSE, status |-> st] : st \in {200, 201, 204, 401, 404, 500}}

\* with settings null the URL is 'undefined/webdavundefined/<fileName>', which
\* uploadAsync cannot request
PutOutcomesOf(u) ==
    IF u.version = "secureStorage" /\ getSynologySettings(u.settings) = "null"
    THEN {[thrown |-> TRUE, status |-> 0]}
    ELSE PutOutcomes

Failure(error) == [kind |-> "returned", success |-> FALSE, url |-> "none", error |-> error]

Success(url) == [kind |-> "returned", success |-> TRUE, url |-> url, error |-> "none"]

\* synologyUploader.ts, catch (error): the message of the error
uploadCatch(err) == Failure("error.message")

\* the version with the probe, catch (err)
uploadCatchWithProbe(err) ==
    IF err.kind = "axios"
    THEN IF err.code = "ECONNABORTED" THEN Failure("Upload timed out")
         ELSE IF err.code = "ECONNREFUSED" THEN Failure("Connection refused")
         ELSE IF err.status = 405 THEN Failure("WebDAV not properly configured")
         ELSE IF err.status = 401 THEN Failure("Authentication failed (credentials)")
         ELSE IF err.status # 0 THEN Failure("Server error")
         ELSE IF err.request THEN Failure("Connection failed")
         ELSE Failure("error.message")
    ELSE Failure("error.message")

\* no catch: the error leaves uploadToSynology
CaughtRethrows(u, err) ==
    [kind |-> "raised", success |-> FALSE, url |-> "none", error |-> "none"]

\* the catch of the function, in either version
Caught(u, err) ==
    IF u.version = "config" THEN uploadCatchWithProbe(err) ELSE uploadCatch(err)

Return(u, result) == [u EXCEPT !.pc = "done", !.result = result]

\* what follows the image processing: the probe, or directly the PUT
AfterImage(u) == IF u.version = "config" THEN "probe" ELSE "put"

\* the try / catch around the PROPFIND: 404 and 401 return, anything else is
\* thrown again and reaches the catch of the function
afterProbe(u, o) ==
    IF o = NoError THEN [u EXCEPT !.pc = "put"]
    ELSE IF o.kind = "axios" /\ o.status = 404 THEN Return(u, Failure("Upload folder not found"))
    ELSE IF o.kind = "axios" /\ o.status = 401 THEN Return(u, Failure("Authentication failed (probe)"))
    ELSE Return(u, Caught(u, o))

\* after uploadAsync: status 2xx is a success in synologyUploader.ts; the
\* version with the probe throws unless the status is 200 or 201
afterPut(u, o) ==
    IF o.thrown THEN Return(u, Caught(u, OtherError))
    ELSE IF u.version = "config"
    THEN IF o.status # 200 /\ o.status # 201
         THEN Return(u, Caught(u, OtherError))
         ELSE Return(u, Success("accessUrl"))
    ELSE IF o.status >= 200 /\ o.status < 300
         THEN Return(u, Success("fileUrl"))
         ELSE Return(u, Failure("Upload failed with status"))

InitSender ==
    /\ serverUrl = <<>>
    /\ call = NoCall
    /\ serverUp = TRUE
    /\ req = <<>>
    /\ notifications = <<>>
    /\ lastOp = NoOp
    /\ vp = NoPlayer
    /\ hist = NoHistory
    /\ up = NoUpload
    /\ push = NoPushCall
    /\ watch = NoWatch

\* uploadToSynology is called; getSynologySettings (which never throws) has
\* read the five keys
UploadCall ==
    /\ up.pc = "idle"
    /\ \E version \in UploadVersions, stored \in SUBSET SettingKeys, isImage \in BOOLEAN :
         /\ version = "config" => stored = SettingKeys
         /\ up' = [up EXCEPT !.pc = "getInfo", !.version = version,
                             !.settings = stored, !.isImage = isImage]
    /\ UNCHANGED <<serverUrl, srvVars, pvVars, rcvVars, vpVars, push, wchVars>>

\* FileSystem.getInfoAsync(fileUri) ends
UploadFileInfo ==
    /\ up.pc = "getInfo"
    /\ \E o \in FileInfoOutcomes :
         LET u == [up EXCEPT !.fileInfo = o]
         IN up' = IF o = "throws" THEN Return(u, Caught(u, OtherError))
                  ELSE IF o = "missing" THEN Return(u, Failure("File does not exist"))
                  ELSE IF u.isImage THEN [u EXCEPT !.pc = "manipulate"]
                  ELSE [u EXCEPT !.pc = AfterImage(u), !.processedUri = "original"]
    /\ UNCHANGED <<serverUrl, srvVars, pvVars, rcvVars, vpVars, push, wchVars>>

\* ImageManipulator.manipulateAsync ends; its failure keeps the original file
UploadManipulate ==
    /\ up.pc = "manipulate"
    /\ \E o \in ManipulateOutcomes :
         up' = [up EXCEPT !.pc = AfterImage(up),
                          !.processedUri = IF o = "processed" THEN "processed"
                                           ELSE "original"]
    /\ UNCHANGED <<serverUrl, srvVars, pvVars, rcvVars, vpVars, push, wchVars>>

\* the PROPFIND of the version with the probe ends
UploadProbe ==
    /\ up.pc = "probe"
    /\ \E o \in ProbeOutcomes :
         up' = afterProbe([up EXCEPT !.probe = o, !.probed = TRUE,
                                     !.requests = Append(@, "PROPFIND")], o)
    /\ UNCHANGED <<serverUrl, srvVars, pvVars, rcvVars, vpVars, push, wchVars>>

\* FileSystem.uploadAsync (the PUT) ends
UploadPut ==
    /\ up.pc = "put"
    /\ \E o \in PutOutcomesOf(up) :
         up' = afterPut([up EXCEPT !.put = o, !.requests = Append(@, "PUT")], o)
    /\ UNCHANGED <<serverUrl, srvVars, pvVars, rcvVars, vpVars, push, wchVars>>

NextSender ==
    \/ UploadCall
    \/ UploadFileInfo
    \/ UploadManipulate
    \/ UploadProbe
    \/ UploadPut
    \/ NotifyCall
    \/ NotifyResult

SpecSender == InitSender /\ [][NextSender]_vars

----------------------------------------------------------------------------
(* server.ts: app.post('/process-video') *)

NoRequest ==
    [pc |-> "none", videoName |-> <<>>, token |-> NoToken, reply |-> "none",
     pv |-> NoCall, calls |-> 0, message |-> NoMessage, sent |-> "none",
     gateway |-> NoOutcome, log |-> {}]

\* the reply deferred until the work is done
HandlerReplyDeferred(videoName) ==
    IF videoName = <<>> THEN "400" ELSE "none"

\* what the handler sends before it returns: 400 for a missing videoName,
\* else the processing status
HandlerReply(videoName) ==
    IF videoName = <<>> THEN "400" ELSE "processing"

\* the URL of the object as requested, whatever processVideo made of it
NotificationUrlOfRequest(r) == serverUrl \o Slash \o r.videoName

\* the videoUrl argument of sendPushNotification
NotificationUrl(r) == r.pv.processedVideoUrl

\* the notification is sent whatever the request says
ShouldNotifyAlways(r) == TRUE

\* if (expoPushToken)
ShouldNotify(r) == Truthy(r.token)

\* the timer callback after processVideo has ended, up to its next await:
\* a throw of processVideo leaves the callback's promise rejected, which
\* nothing handles; else the notification is sent if a token was given
AfterProcessVideo(r) ==
    IF r.pv.pc = "thrown"
    THEN [r EXCEPT !.pc = "failed", !.log = @ \cup {"Error processing video"}]
    ELSE IF r.pv.pc = "returned"
    THEN IF ShouldNotify(r)
         THEN [r EXCEPT !.pc = "notifying",
                        !.calls = @ + 1,
                        !.message = pushMessage(r.token, NotificationUrl(r))]
         ELSE [r EXCEPT !.pc = "done",
                        !.log = @ \cup {"Video processing completed"}]
    ELSE r

\* an unhandled rejection ends the process
Survives(r) == r.pc # "failed"

InitServer ==
    /\ serverUrl \in ServerUrls
    /\ call = NoCall
    /\ serverUp = TRUE
    /\ req = <<>>
    /\ notifications = <<>>
    /\ lastOp = NoOp
    /\ vp = NoPlayer
    /\ hist = NoHistory
    /\ up = NoUpload
    /\ push = NoPushCall
    /\ watch = NoWatch

Receive ==
    /\ serverUp
    /\ Len(req) < MaxReq
    /\ \E name \in Names(MaxReqNameLen), token \in PushTokens :
         req' = Append(req,
                  [NoRequest EXCEPT
                     !.pc = IF name = <<>> THEN "rejected" ELSE "accepted",
                     !.videoName = name,
                     !.token = token,
                     !.reply = HandlerReply(name)])
    /\ UNCHANGED <<serverUrl, serverUp, pvVars, rcvVars, vpVars, sndVars, wchVars>>

\* the setTimeout callback starts: processVideo runs up to the await of exists
StartWork(i) ==
    /\ serverUp
    /\ req[i].pc = "accepted"
    /\ req' = [req EXCEPT ![i] = [@ EXCEPT !.pc = "working",
                                           !.pv = processVideoStart(req[i].videoName)]]
    /\ UNCHANGED <<serverUrl, serverUp, pvVars, rcvVars, vpVars, sndVars, wchVars>>

ExistsResult(i) ==
    /\ serverUp
    /\ req[i].pc = "working"
    /\ req[i].pv.pc = "exists"
    /\ \E found \in BOOLEAN :
         LET r == AfterProcessVideo(
                    [req[i] EXCEPT !.pv = processVideoExists(@, serverUrl, found)])
         IN /\ req' = [req EXCEPT ![i] = r]
            /\ serverUp' = Survives(r)
    /\ UNCHANGED <<serverUrl, pvVars, rcvVars, vpVars, sndVars, wchVars>>

ExecResult(i) ==
    /\ serverUp
    /\ req[i].pc = "working"
    /\ req[i].pv.pc = "exec"
    /\ \E outcome \in ExecOutcomes :
         LET r == AfterProcessVideo(
                    [req[i] EXCEPT !.pv = processVideoExec(@, serverUrl, outcome)])
         IN /\ req' = [req EXCEPT ![i] = r]
            /\ serverUp' = Survives(r)
    /\ UNCHANGED <<serverUrl, pvVars, rcvVars, vpVars, sndVars, wchVars>>

\* the gateway call ends: sendPushNotification returns, and the callback logs
\* its two lines whatever the returned value
GatewayResult(i) ==
    /\ serverUp
    /\ req[i].pc = "notifying"
    /\ \E o \in GatewayOutcomes :
         LET ok == sendPushNotificationResult(o)
         IN req' = [req EXCEPT ![i] =
                [@ EXCEPT !.pc = "done",
                          !.sent = IF ok THEN "true" ELSE "false",
                          !.gateway = o,
                          !.log = @ \cup (IF ok THEN {} ELSE {"Push notification error"})
                                    \cup {"Push notification sent",
                                          "Video processing completed"}]]
    /\ UNCHANGED <<serverUrl, serverUp, pvVars, rcvVars, vpVars, sndVars, wchVars>>

NextServer ==
    \/ Receive
    \/ \E i \in 1..Len(req) : StartWork(i)
    \/ \E i \in 1..Len(req) : ExistsResult(i)
    \/ \E i \in 1..Len(req) : ExecResult(i)
    \/ \E i \in 1..Len(req) : GatewayResult(i)

SpecServer == InitServer /\ [][NextServer]_vars

\* the timer callback of a request is run, and the awaits of processVideo and
\* of the gateway call are resumed when the file system, the transcoder and
\* the gateway answer, as long as the process lives
FairServer ==
    \A i \in 1..MaxReq :
        /\ WF_vars(i <= Len(req) /\ StartWork(i))
        /\ WF_vars(i <= Len(req) /\ ExistsResult(i))
        /\ WF_vars(i <= Len(req) /\ ExecResult(i))
        /\ WF_vars(i <= Len(req) /\ GatewayResult(i))

SpecServerFair == SpecServer /\ FairServer

----------------------------------------------------------------------------
(* Receiver App: the notifications list *)

MediaUrls == 1..MaxUrls

\* the values data.mediaUrl and data.mediaType take
PayloadUrls == {Undefined, EmptyString} \cup MediaUrls
PayloadTypes == {"<undefined>", "", "image", "video", "audio"}

\* !data.mediaUrl || !data.mediaType
InvalidData(data) ==
    \/ data.mediaUrl \in {Undefined, EmptyString}
    \/ data.mediaType \in {"<undefined>", ""}

\* newNotification; its id is unique among the entries of the list
newNotification(prev, type, url) ==
    [id |-> Len(prev) + 1, type |-> type, url |-> url]

\* the updater without the duplicate check
PrependAlways(prev, entry) == <<entry>> \o prev

\* the updater given to setNotifications
PrependUnlessDuplicate(prev, entry) ==
    IF \E k \in 1..Len(prev) : prev[k].url = entry.url
    THEN prev
    ELSE <<entry>> \o prev

\* testMedia of simulateNotification: an image URL and a video URL
testMedia == {[type |-> "image", url |-> 1], [type |-> "video", url |-> 2]}

InitReceiver ==
    /\ serverUrl = <<>>
    /\ call = NoCall
    /\ serverUp = TRUE
    /\ req = <<>>
    /\ notifications = <<>>
    /\ lastOp = NoOp
    /\ vp = NoPlayer
    /\ hist = NoHistory
    /\ up = NoUpload
    /\ push = NoPushCall
    /\ watch = NoWatch

processNotification ==
    /\ Len(notifications) < MaxList
    /\ \E url \in PayloadUrls, type \in PayloadTypes :
         LET data == [mediaUrl |-> url, mediaType |-> type]
         IN /\ lastOp' = [op |-> "push", mediaUrl |-> url, mediaType |-> type]
            /\ notifications' =
                 IF InvalidData(data) THEN notifications
                 ELSE PrependUnlessDuplicate(notifications,
                        newNotification(notifications, data.mediaType, data.mediaUrl))
    /\ UNCHANGED <<serverUrl, srvVars, pvVars, vpVars, sndVars, wchVars>>

simulateNotification ==
    /\ Len(notifications) < MaxList
    /\ \E m \in testMedia :
         /\ lastOp' = [op |-> "simulate", mediaUrl |-> m.url, mediaType |-> m.type]
         /\ notifications' =
              PrependAlways(notifications, newNotification(notifications, m.type, m.url))
    /\ UNCHANGED <<serverUrl, srvVars, pvVars, vpVars, sndVars, wchVars>>

NextReceiver == processNotification \/ simulateNotification

SpecReceiver == InitReceiver /\ [][NextReceiver]_vars


----------------------------------------------------------------------------
(* Receiver: VideoPlayer *)
(* React Native delivers one native call (a player event, a timer, a press *)
(* or new props) at a time and runs the render it causes, with the cleanups *)
(* and effects of that render, before the next one: a step of the model is  *)
(* the handler followed by that render.  The handlers of a step read the    *)
(* state of the last render (their closures) and queue their updates.       *)

MAX_REPLAYS == 5
MAX_RETRIES == 10

FailedToLoad == "Failed to load video"
FailedAfterAttempts == "Failed to load video after 10 attempts"

(* the methods of the expo-video player the component calls *)

play(s) == [s EXCEPT !.playing = TRUE, !.cmds = Append(@, "play")]

\* a pause of a playing player is reported back by a playingChange event
pause(s) ==
    [s EXCEPT !.playing = FALSE,
              !.pauseEvent = @ \/ (s.playing /\ s.status = "readyToPlay"),
              !.cmds = Append(@, "pause")]

replay(s) == [s EXCEPT !.playing = TRUE, !.cmds = Append(@, "replay")]

playerReplace(s, uri) == [s EXCEPT !.status = "loading", !.cmds = Append(@, "replace")]

\* useVideoPlayer(uri, setup) on a new uri: a new player, and setup run on it
useVideoPlayer(s) ==
    LET fresh == [s EXCEPT !.status = "loading", !.loop = ~s.hasReachedLimit,
                           !.playing = FALSE, !.pauseEvent = FALSE]
    IN IF s.isVisible /\ ~s.hasReachedLimit THEN play(fresh) ELSE fresh

(* retryTimeoutRef and the timers *)

\* if (retryTimeoutRef.current) clearTimeout(retryTimeoutRef.current)
clearRetryTimeout(s) ==
    [s EXCEPT !.timers = {t \in @ : t.id # s.retryTimeoutRef}]

\* ... followed by retryTimeoutRef.current = null
clearRetryTimeoutAndNull(s) == [clearRetryTimeout(s) EXCEPT !.retryTimeoutRef = 0]

TimerIdsInUse(s) == {t.id : t \in s.timers}

FreshTimerId(s) ==
    CHOOSE i \in 1..MaxTimerIds :
        /\ i \notin TimerIdsInUse(s)
        /\ \A j \in 1..(i - 1) : j \in TimerIdsInUse(s)

\* retryTimeoutRef.current = setTimeout(retryLoadingVideo, 20000), with the
\* retryLoadingVideo of render c
setRetryTimeout(s, c) ==
    LET id == FreshTimerId(s)
    IN [s EXCEPT !.timers = @ \cup {[id |-> id, uri |-> c.uri, retryCount |-> c.retryCount]},
                 !.retryTimeoutRef = id]

\* the retry allowed one time too many
CanRetryOffByOne(retryCount) == retryCount <= MAX_RETRIES

\* retryCount < MAX_RETRIES
CanRetry(retryCount) == retryCount < MAX_RETRIES

\* retryLoadingVideo of render c
retryLoadingVideo(s, c) ==
    IF CanRetry(c.retryCount)
    THEN [playerReplace([s EXCEPT !.isLoading = TRUE, !.error = "null"], c.uri)
            EXCEPT !.retryCount = @ + 1]
    ELSE [s EXCEPT !.error = FailedAfterAttempts]

\* the limit reached one completion late
ReachedLimitLate(newCount) == newCount > MAX_REPLAYS

\* newCount >= MAX_REPLAYS
ReachedLimit(newCount) == newCount >= MAX_REPLAYS

(* the listeners of render c *)

\* readyToPlay does not reset retryCount
statusListenerKeepsRetryCount(s, c, ev) ==
    LET s1 == IF ev.error
              THEN setRetryTimeout(clearRetryTimeout([s EXCEPT !.error = FailedToLoad]), c)
              ELSE s
    IN IF ev.status = "readyToPlay"
       THEN clearRetryTimeoutAndNull([s1 EXCEPT !.isLoading = FALSE, !.error = "null"])
       ELSE s1

\* statusSubscription
statusListener(s, c, ev) ==
    LET s1 == IF ev.error
              THEN setRetryTimeout(clearRetryTimeout([s EXCEPT !.error = FailedToLoad]), c)
              ELSE s
    IN IF ev.status = "readyToPlay"
       THEN clearRetryTimeoutAndNull(
                [s1 EXCEPT !.isLoading = FALSE, !.error = "null", !.retryCount = 0])
       ELSE s1

\* the second listener sets its timeout without clearing the first one's
errorListenerKeepsTimer(s, c, ev) ==
    IF ev.error
    THEN setRetryTimeout([s EXCEPT !.error = FailedToLoad, !.isLoading = FALSE], c)
    ELSE s

\* errorSubscription
errorListener(s, c, ev) ==
    IF ev.error
    THEN setRetryTimeout(
             clearRetryTimeout([s EXCEPT !.error = FailedToLoad, !.isLoading = FALSE]), c)
    ELSE s

\* playingSubscription
playingListener(s, c, ev) ==
    IF ~ev.isPlaying /\ ~c.hasReachedLimit /\ ev.currentTime > 0
    THEN LET newCount == c.replayCount + 1
         IN IF ReachedLimit(newCount)
            THEN [s EXCEPT !.replayCount = newCount, !.hasReachedLimit = TRUE]
            ELSE replay([s EXCEPT !.replayCount = newCount])
    ELSE s

\* the button restarts playback and leaves the limit set
handleReplayKeepsLimit(s) == replay([s EXCEPT !.replayCount = 0])

handleReplay(s) == replay([s EXCEPT !.replayCount = 0, !.hasReachedLimit = FALSE])

handleRetryNow(s, c) == retryLoadingVideo(clearRetryTimeoutAndNull(s), c)

(* the effects *)

\* the effect requests the uri and resets nothing
uriEffectKeepsState(s) == playerReplace(s, s.uri)

\* "Reset states when URI changes", deps [uri, player]
uriEffect(s) ==
    playerReplace(
        clearRetryTimeoutAndNull(
            [s EXCEPT !.isLoading = TRUE, !.error = "null", !.replayCount = 0,
                      !.hasReachedLimit = FALSE, !.retryCount = 0]),
        s.uri)

\* "Control playback based on visibility", deps [isVisible, hasReachedLimit,
\* player], with the values of render r
visibilityEffect(s, r) ==
    IF r.isVisible
    THEN IF ~r.hasReachedLimit THEN play(s) ELSE s
    ELSE pause(s)

\* a cleanup that removes the subscriptions only
listenerCleanupKeepsTimer(s) == s

\* the cleanup of the listener effect: the subscriptions are removed and the
\* timeout is cleared
listenerCleanup(s) == clearRetryTimeoutAndNull(s)

UriDepsChanged(a, b) == a.uri # b.uri

VisibilityDepsChanged(a, b) ==
    a.isVisible # b.isVisible \/ a.hasReachedLimit # b.hasReachedLimit \/ a.uri # b.uri

\* deps [player, hasReachedLimit, replayCount, uri, retryLoadingVideo], and
\* retryLoadingVideo changes with [uri, retryCount, player]
ListenerDepsChanged(a, b) ==
    \/ a.hasReachedLimit # b.hasReachedLimit
    \/ a.replayCount # b.replayCount
    \/ a.uri # b.uri
    \/ a.retryCount # b.retryCount

\* one render of the state s after the render of prev: the player hook, the
\* cleanups of the effects whose deps changed, then those effects in order
\* (the listener effect subscribes anew, which changes no state)
RenderPass(prev, s) ==
    LET s0 == IF UriDepsChanged(prev, s) THEN useVideoPlayer(s) ELSE s
        s1 == IF ListenerDepsChanged(prev, s) THEN listenerCleanup(s0) ELSE s0
        s2 == IF UriDepsChanged(prev, s) THEN uriEffect(s1) ELSE s1
        s3 == IF VisibilityDepsChanged(prev, s) THEN visibilityEffect(s2, s) ELSE s2
    IN s3

\* the render of s, and the render of the state its effects have set
Commit(prev, s) == RenderPass(s, RenderPass(prev, s))

\* the mount: first render, then every effect
Mounted(uri, isVisible) ==
    LET s == FirstRender(uri, isVisible)
    IN visibilityEffect(uriEffect(useVideoPlayer(s)), s)

(* what the steps record about themselves *)

Min(a, b) == IF a < b THEN a ELSE b

\* the step's name, whether it cancelled a pending retry timeout, and what
\* the render before it showed
Note(act) ==
    [hist EXCEPT !.act = act,
                 !.cancelled = act # "TimerFire" /\ vp.timers # {} /\ vp'.timers = {},
                 !.prev = [retryCount |-> vp.retryCount, hasError |-> vp.error # "null"]]

InitPlayer ==
    /\ serverUrl = <<>>
    /\ call = NoCall
    /\ serverUp = TRUE
    /\ req = <<>>
    /\ notifications = <<>>
    /\ lastOp = NoOp
    /\ \E isVisible \in BOOLEAN : vp = Mounted("uriA", isVisible)
    /\ hist = NoHistory
    /\ up = NoUpload
    /\ push = NoPushCall
    /\ watch = NoWatch

Fresh == [vp EXCEPT !.cmds = <<>>]

\* statusChange with an error: a load that fails, or playback that breaks
\* (which may be reported by a playingChange event as well)
StatusError ==
    /\ vp.mounted
    /\ vp.status \in {"loading", "readyToPlay"}
    /\ \E reportsStop \in BOOLEAN :
         LET ev == [status |-> "error", error |-> TRUE]
             wasPlaying == vp.status = "readyToPlay" /\ vp.playing
             s0 == [Fresh EXCEPT !.status = "error",
                                 !.playing = IF wasPlaying THEN FALSE ELSE @,
                                 !.pauseEvent = @ \/ (wasPlaying /\ reportsStop)]
         IN vp' = Commit(vp, errorListener(statusListener(s0, vp, ev), vp, ev))
    /\ hist' = Note("StatusError")
    /\ UNCHANGED <<serverUrl, srvVars, pvVars, rcvVars, sndVars, wchVars>>

\* statusChange to readyToPlay
StatusReady ==
    /\ vp.mounted
    /\ vp.status = "loading"
    /\ LET ev == [status |-> "readyToPlay", error |-> FALSE]
           s0 == [Fresh EXCEPT !.status = "readyToPlay"]
       IN vp' = Commit(vp, errorListener(statusListener(s0, vp, ev), vp, ev))
    /\ hist' = [Note("StatusReady") EXCEPT !.reqs = 0, !.manual = FALSE]
    /\ UNCHANGED <<serverUrl, srvVars, pvVars, rcvVars, sndVars, wchVars>>

\* the media plays to its end: playingChange to false at the end position
EndOfMedia ==
    /\ vp.mounted
    /\ vp.status = "readyToPlay"
    /\ vp.playing
    /\ LET ev == [isPlaying |-> FALSE, currentTime |-> 1]
           s0 == [Fresh EXCEPT !.playing = FALSE]
       IN vp' = Commit(vp, playingListener(s0, vp, ev))
    /\ hist' = [Note("EndOfMedia") EXCEPT
                   !.ends = Min(@ + 1, MAX_REPLAYS + MaxExtraEnds)]
    /\ UNCHANGED <<serverUrl, srvVars, pvVars, rcvVars, sndVars, wchVars>>

\* the viewer pauses with the native controls
UserPause ==
    /\ vp.mounted
    /\ vp.isVisible
    /\ vp.status = "readyToPlay"
    /\ vp.playing
    /\ \E currentTime \in {0, 1} :
         LET ev == [isPlaying |-> FALSE, currentTime |-> currentTime]
             s0 == [Fresh EXCEPT !.playing = FALSE]
         IN vp' = Commit(vp, playingListener(s0, vp, ev))
    /\ hist' = [Note("UserPause") EXCEPT !.pure = FALSE]
    /\ UNCHANGED <<serverUrl, srvVars, pvVars, rcvVars, sndVars, wchVars>>

\* the viewer starts playback with the native controls
UserPlay ==
    /\ vp.mounted
    /\ vp.isVisible
    /\ vp.status = "readyToPlay"
    /\ ~vp.playing
    /\ \E currentTime \in {0, 1} :
         LET ev == [isPlaying |-> TRUE, currentTime |-> currentTime]
             s0 == [Fresh EXCEPT !.playing = TRUE]
         IN vp' = Commit(vp, playingListener(s0, vp, ev))
    /\ hist' = Note("UserPlay")
    /\ UNCHANGED <<serverUrl, srvVars, pvVars, rcvVars, sndVars, wchVars>>

\* the playingChange event that reports a pause() or a broken playback
PauseEvent ==
    /\ vp.mounted
    /\ vp.pauseEvent
    /\ \E currentTime \in {0, 1} :
         LET ev == [isPlaying |-> FALSE, currentTime |-> currentTime]
             s0 == [Fresh EXCEPT !.pauseEvent = FALSE]
         IN vp' = Commit(vp, playingListener(s0, vp, ev))
    /\ hist' = [Note("PauseEvent") EXCEPT !.pure = FALSE]
    /\ UNCHANGED <<serverUrl, srvVars, pvVars, rcvVars, sndVars, wchVars>>

\* a retry timeout fires: the retryLoadingVideo it was given runs
TimerFire ==
    /\ \E t \in vp.timers :
         LET s0 == [Fresh EXCEPT !.timers = @ \ {t}]
         IN /\ vp' = Commit(vp, retryLoadingVideo(s0, t))
            /\ hist' = [Note("TimerFire") EXCEPT
                           !.reqs = IF CanRetry(t.retryCount) THEN @ + 1 ELSE @]
    /\ UNCHANGED <<serverUrl, srvVars, pvVars, rcvVars, sndVars, wchVars>>

\* the "Retry Now" button, rendered while error is set
RetryNow ==
    /\ vp.mounted
    /\ vp.error # "null"
    /\ vp' = Commit(vp, handleRetryNow(Fresh, vp))
    /\ hist' = [Note("RetryNow") EXCEPT
                   !.manual = TRUE,
                   !.reqs = IF CanRetry(vp.retryCount) THEN @ + 1 ELSE @]
    /\ UNCHANGED <<serverUrl, srvVars, pvVars, rcvVars, sndVars, wchVars>>

\* the "Replay" button, rendered while hasReachedLimit is set
ManualReplay ==
    /\ vp.mounted
    /\ vp.hasReachedLimit
    /\ vp' = Commit(vp, handleReplay(Fresh))
    /\ hist' = [Note("ManualReplay") EXCEPT !.ends = 0, !.pure = TRUE]
    /\ UNCHANGED <<serverUrl, srvVars, pvVars, rcvVars, sndVars, wchVars>>

\* the isVisible prop changes
SetVisible ==
    /\ vp.mounted
    /\ vp' = Commit(vp, [Fresh EXCEPT !.isVisible = ~@])
    /\ hist' = Note("SetVisible")
    /\ UNCHANGED <<serverUrl, srvVars, pvVars, rcvVars, sndVars, wchVars>>

\* the uri prop changes
UrlChange ==
    /\ vp.mounted
    /\ \E uri \in Uris \ {vp.uri} : vp' = Commit(vp, [Fresh EXCEPT !.uri = uri])
    /\ hist' = [NoHistory EXCEPT !.act = "UrlChange",
                              !.cancelled = Note("UrlChange").cancelled]
    /\ UNCHANGED <<serverUrl, srvVars, pvVars, rcvVars, sndVars, wchVars>>

\* the component unmounts: the cleanup of the listener effect runs and the
\* player is released
Unmount ==
    /\ vp.mounted
    /\ vp' = [listenerCleanup(Fresh) EXCEPT !.mounted = FALSE, !.status = "idle",
                                            !.playing = FALSE, !.pauseEvent = FALSE]
    /\ hist' = Note("Unmount")
    /\ UNCHANGED <<serverUrl, srvVars, pvVars, rcvVars, sndVars, wchVars>>

NextPlayer ==
    \/ StatusError
    \/ StatusReady
    \/ EndOfMedia
    \/ UserPause
    \/ UserPlay
    \/ PauseEvent
    \/ TimerFire
    \/ RetryNow
    \/ ManualReplay
    \/ SetVisible
    \/ UrlChange
    \/ Unmount

SpecPlayer == InitPlayer /\ [][NextPlayer]_vars

(* The render that follows a player event or a timeout is scheduled, not    *)
(* run inside the handler: a press that arrives before it is handled by the *)
(* callbacks of the render before, which hold the values of that render.    *)

ScheduledRenderSteps ==
    {"TimerFire", "StatusError", "StatusReady", "EndOfMedia", "PauseEvent",
     "UserPause", "UserPlay"}

\* "Retry Now" pressed between such a step and its render: the button and
\* handleRetryNow are those of the render before the step
RetryNowBeforeRender ==
    /\ vp.mounted
    /\ hist.act \in ScheduledRenderSteps
    /\ hist.prev.hasError
    /\ LET c == [vp EXCEPT !.retryCount = hist.prev.retryCount]
       IN vp' = Commit(vp, handleRetryNow(Fresh, c))
    /\ hist' = [Note("RetryNowBeforeRender") EXCEPT
                   !.manual = TRUE,
                   !.reqs = IF CanRetry(hist.prev.retryCount) THEN @ + 1 ELSE @]
    /\ UNCHANGED <<serverUrl, srvVars, pvVars, rcvVars, sndVars, wchVars>>

NextPlayerStale ==
    \/ NextPlayer
    \/ RetryNowBeforeRender

SpecPlayerStale == InitPlayer /\ [][NextPlayerStale]_vars


----------------------------------------------------------------------------
(* convert-mov-to-mp4.sh run by cron beside the server, on one uploaded file *)

\* basename "$file" .mov: the last segment, without the suffix unless the
\* segment is the suffix itself
basename(file, suffix) ==
    LET b == splitPop(file)
    IN IF b # suffix /\ endsWith(b, suffix)
       THEN SubSeq(b, 1, Len(b) - Len(suffix))
       ELSE b

\* output_file="$OUTPUT_DIR/${filename}.mp4", OUTPUT_DIR being the videos
\* directory
OutputFile(file) == videosDir \o basename(file, DotMov) \o DotMp4

\* find -name "*.mov" -type f: the files whose last segment ends in .mov,
\* compared case-sensitively
FindMatches(files) == {f \in files : endsWith(splitPop(f), DotMov)}

\* the names a file is uploaded under
UploadedNames ==
    {n \in Names(MaxNameLen) : n # <<>> /\ n[Len(n)] # "/" /\ n[1] # "/"}

\* lsof "$file": it lists the file only while a process of the same host has
\* it open, which the server's ffmpeg has while it converts the file
LsofOutcomes(file) ==
    IF call.pc = "exec" /\ call.inputPath = file THEN BOOLEAN ELSE {FALSE}

InitWatch ==
    /\ serverUrl \in ServerUrls \ {<<>>}
    /\ call = NoCall
    /\ serverUp = TRUE
    /\ req = <<>>
    /\ notifications = <<>>
    /\ lastOp = NoOp
    /\ vp = NoPlayer
    /\ hist = NoHistory
    /\ up = NoUpload
    /\ push = NoPushCall
    /\ \E n \in UploadedNames : watch = Directory(n, {join(videosDir, n)})

\* the server is asked to process the uploaded file
ServerCall ==
    /\ call.pc \in {"idle", "returned", "thrown"}
    /\ watch.transcodes < MaxTranscodes
    /\ call' = processVideoStart(watch.videoName)
    /\ watch' = [watch EXCEPT !.transcodes = @ + 1]
    /\ UNCHANGED <<serverUrl, srvVars, rcvVars, vpVars, sndVars>>

\* exists(inputPath) is answered by the directory
ServerExists ==
    /\ call.pc = "exists"
    /\ call' = processVideoExists(call, serverUrl, call.inputPath \in watch.files)
    /\ UNCHANGED <<serverUrl, srvVars, rcvVars, vpVars, sndVars, wchVars>>

\* the server's ffmpeg ends; on exit 0 its output is in the directory
ServerExec ==
    /\ call.pc = "exec"
    /\ \E outcome \in ExecOutcomes :
         /\ call' = processVideoExec(call, serverUrl, outcome)
         /\ watch' = IF convertMovToMp4Result(outcome)
                     THEN [watch EXCEPT !.files = @ \cup {call.outputPath},
                                        !.produced = @ \cup {call.inputPath}]
                     ELSE watch
    /\ UNCHANGED <<serverUrl, srvVars, rcvVars, vpVars, sndVars>>

\* find ... -mmin -1: the matching files modified in the last minute
ScriptFind ==
    /\ watch.pc = "idle"
    /\ watch.scans < MaxScans
    /\ \E recent \in SUBSET FindMatches(watch.files) :
         watch' = [watch EXCEPT !.pc = "read", !.todo = recent, !.scans = @ + 1]
    /\ UNCHANGED <<serverUrl, srvVars, pvVars, rcvVars, vpVars, sndVars>>

\* while read -r file, and the two assignments that open the loop body
ScriptRead ==
    /\ watch.pc = "read"
    /\ \E file \in watch.todo :
         watch' = [watch EXCEPT !.pc = "test", !.todo = @ \ {file},
                                !.file = file, !.output_file = OutputFile(file)]
    /\ UNCHANGED <<serverUrl, srvVars, pvVars, rcvVars, vpVars, sndVars>>

\* read finds no line left: the run ends
ScriptDone ==
    /\ watch.pc = "read"
    /\ watch.todo = {}
    /\ watch' = [watch EXCEPT !.pc = "idle", !.file = <<>>, !.output_file = <<>>]
    /\ UNCHANGED <<serverUrl, srvVars, pvVars, rcvVars, vpVars, sndVars>>

\* [ -f "$output_file" ]: skip the file, or go on to lsof
ScriptTestOutput ==
    /\ watch.pc = "test"
    /\ watch' = [watch EXCEPT !.pc = IF watch.output_file \in watch.files
                                     THEN "read" ELSE "lsof"]
    /\ UNCHANGED <<serverUrl, srvVars, pvVars, rcvVars, vpVars, sndVars>>

\* lsof "$file": skip the file, or start ffmpeg on it
ScriptLsof ==
    /\ watch.pc = "lsof"
    /\ \E open \in LsofOutcomes(watch.file) :
         watch' = [watch EXCEPT !.pc = IF open THEN "read" ELSE "ffmpeg"]
    /\ UNCHANGED <<serverUrl, srvVars, pvVars, rcvVars, vpVars, sndVars>>

\* the script's ffmpeg ends; on exit 0 its output is in the directory
ScriptFfmpegEnd ==
    /\ watch.pc = "ffmpeg"
    /\ \E outcome \in ExecOutcomes \ {"exception"} :
         watch' = [watch EXCEPT !.pc = "read",
                                !.files = IF outcome = "exit0"
                                          THEN @ \cup {watch.output_file} ELSE @]
    /\ UNCHANGED <<serverUrl, srvVars, pvVars, rcvVars, vpVars, sndVars>>

NextWatch ==
    \/ ServerCall
    \/ ServerExists
    \/ ServerExec
    \/ ScriptFind
    \/ ScriptRead
    \/ ScriptDone
    \/ ScriptTestOutput
    \/ ScriptLsof
    \/ ScriptFfmpegEnd

SpecWatch == InitWatch /\ [][NextWatch]_vars

----------------------------------------------------------------------------
(* Properties of the server and of VideoProcessingService *)

Requests == {req[i] : i \in 1..Len(req)}

\* what follows the last "/" of a path, by the position of that "/"
LastSlash(p) ==
    LET at == {i \in 1..Len(p) : p[i] = "/"}
    IN IF at = {} THEN 0 ELSE CHOOSE i \in at : \A j \in at : j <= i

LastSegment(p) == SubSeq(p, LastSlash(p) + 1, Len(p))

C2_NotifyAfterTranscode ==
    \A r \in Requests :
        r.calls > 0 =>
            /\ r.pv.pc = "returned"
            /\ r.message.mediaUrl = r.pv.processedVideoUrl
            /\ r.message.mediaUrl = serverUrl \o Slash \o LastSegment(r.pv.finalVideoPath)

\* C2 witness: a converted video was notified under its post-transcode URL
C2_Witness ==
    \E r \in Requests :
        /\ r.calls = 1
        /\ r.pv.needsConversion
        /\ r.pv.finalVideoPath # r.pv.inputPath
        /\ r.message.mediaUrl # NotificationUrlOfRequest(r)

\* C7: the push gateway is called at most once per request, and exactly when
\* a (non-empty) expoPushToken came with the request and processVideo
\* returned; a request whose processVideo threw sends nothing.
C7_NotifyIffTokenAndSuccess ==
    \A r \in Requests :
        /\ r.calls <= 1
        /\ r.calls = 1 <=> (Truthy(r.token) /\ r.pv.pc = "returned")
        /\ r.pv.pc = "thrown" => (r.calls = 0 /\ r.message = NoMessage)
        /\ r.pc = "done" => (r.calls = 1 <=> Truthy(r.token))

\* C7 witness: a request with a token failed in processVideo after another
\* one was notified
C7_Witness ==
    \E r1, r2 \in Requests :
        /\ Truthy(r1.token) /\ r1.pv.pc = "thrown" /\ r1.pv.execs = 1 /\ r1.calls = 0
        /\ r2.calls = 1 /\ r2.pc = "done"

\* C11: sendPushNotification returns true only when the call of the gateway
\* was answered with a success HTTP status and a body that parses and has
\* neither a top-level errors field nor a data item of status 'error'; in
\* every other case it returns false.
C11_TrueOnlyOnHttpSuccess ==
    \A r \in Requests :
        r.sent # "none" =>
            ( r.sent = "true" <=>
                /\ r.gateway.fetch = "resolves"
                /\ r.gateway.httpOk
                /\ r.gateway.json = "valid"
                /\ ~r.gateway.errors
                /\ ~r.gateway.itemError )

\* a URL made of a scheme and host followed by more
IsAbsoluteUrl(url) ==
    \E base \in ServerUrls \ {<<>>} :
        /\ Len(url) > Len(base)
        /\ SubSeq(url, 1, Len(base)) = base

\* C26: every message handed to the gateway carries as mediaUrl an absolute
\* URL, the non-empty server base URL followed by "/" and the file name, and
\* as mediaType image or video, whatever the configuration.
C26_MessageWellFormed ==
    \A r \in Requests :
        r.message # NoMessage =>
            /\ IsAbsoluteUrl(r.message.mediaUrl)
            /\ r.message.mediaUrl = serverUrl \o Slash \o LastSegment(r.pv.finalVideoPath)
            /\ r.message.mediaType \in {"image", "video"}

\* the ends of a request: notified, notification refused, failed with a log
\* line only, and completed with no token to notify
NotifiedSuccess(r) == r.pc = "done" /\ r.sent = "true"
NotifiedFailure(r) == r.pc = "done" /\ r.sent = "false"
SilentFailure(r) == r.pc = "failed"
CompletedWithoutToken(r) == r.pc = "done" /\ r.sent = "none"

Ended(r) ==
    NotifiedSuccess(r) \/ NotifiedFailure(r) \/ SilentFailure(r) \/ CompletedWithoutToken(r)

\* C28: every accepted request, its transcoder run and gateway call
\* terminating, eventually reaches one of its ends, and nothing about it
\* changes afterwards.
C28_RequestEnds ==
    /\ \A i \in 1..MaxReq :
          (i <= Len(req) /\ req[i].pc = "accepted") ~> (i <= Len(req) /\ Ended(req[i]))
    /\ [][ \A i \in 1..Len(req) : Ended(req[i]) => req'[i] = req[i] ]_vars

\* C8: a failure of the asynchronous phase (processVideo throwing, or the
\* notification failing) is logged and leaves the server process running.
C8_FailureContained ==
    \A r \in Requests :
        /\ r.pv.pc = "thrown" => (serverUp /\ "Error processing video" \in r.log)
        /\ r.sent = "false" => (serverUp /\ "Push notification error" \in r.log)

\* C9: when isMovFile(videoName) holds and the conversion exits with status
\* 0, outputPath differs from inputPath and ends in ".mp4", and so does
\* processedVideoUrl.
C9_MovYieldsMp4 ==
    (call.pc = "returned" /\ isMovFile(call.videoName)) =>
        /\ call.outputPath # call.inputPath
        /\ endsWith(call.outputPath, DotMp4)
        /\ endsWith(call.processedVideoUrl, DotMp4)

\* C25: processVideo runs the transcoder once when the source exists and
\* isMovFile(videoName) holds, and not at all otherwise: a missing source
\* throws before any run, another name returns finalVideoPath = inputPath
\* without a run, and a failed run is not repeated.
C25_TranscoderOnce ==
    /\ call.execs <= 1
    /\ call.found = "no" => (call.pc = "thrown" /\ call.execs = 0)
    /\ call.found = "yes" => (call.execs = 1 <=> isMovFile(call.videoName))
    /\ call.found = "unknown" => call.execs = 0
    /\ (call.pc = "returned" /\ ~isMovFile(call.videoName)) =>
           (call.execs = 0 /\ call.finalVideoPath = call.inputPath)
    /\ (call.pc = "thrown" /\ call.found = "yes") => call.execs = 1

\* a conversion of an existing .mov failed and processVideo threw after its
\* single run
C25_Witness ==
    /\ call.pc = "thrown"
    /\ call.found = "yes"
    /\ isMovFile(call.videoName)
    /\ call.execs = 1

----------------------------------------------------------------------------
(* Properties of uploadToSynology and of PushNotificationService *)

\* the failures of the steps of an upload
FileCheckFailed == up.fileInfo \in {"missing", "throws"}
ProbeFailed == up.probed /\ up.probe # NoError
PutFailed == up.put.thrown \/ (up.put.status # 0 /\ ~(up.put.status >= 200 /\ up.put.status < 300))

Issued(method) == \E k \in 1..Len(up.requests) : up.requests[k] = method

\* C12: uploadToSynology, sendPushNotification and sendWakeDeviceNotification
\* never let an error out: a call that has ended has returned, and after a
\* failed file check, probe or PUT the upload has returned success false
\* with an error text, after a rejected fetch or an unparsable body the
\* notification call has returned false.
C12_NeverRaise ==
    /\ up.result.kind # "raised"
    /\ push.result # "throws"
    /\ up.pc = "done" =>
         /\ up.result.kind = "returned"
         /\ (FileCheckFailed \/ ProbeFailed \/ PutFailed) =>
                (~up.result.success /\ up.result.error # "none")
    /\ push.pc = "done" =>
         /\ push.result \in {"true", "false"}
         /\ (push.gateway.fetch = "rejects" \/ push.gateway.json = "invalid") =>
                push.result = "false"

\* a PUT that threw after an answered probe, and a wake-device call whose
\* response did not parse, have both returned their failure value
C12_Witness ==
    /\ up.pc = "done"
    /\ up.probed
    /\ up.put.thrown
    /\ up.result = Failure("error.message")
    /\ push.pc = "done"
    /\ push.fn = "sendWakeDeviceNotification"
    /\ push.gateway.json = "invalid"
    /\ push.result = "false"

\* C13: once the probe has been answered, a 401 has ended the upload with an
\* authentication error and a 404 with a folder-not-found error, both without
\* a PUT, and any other failure of the probe has not ended the upload: it
\* goes on to the PUT.
C13_ProbeSoftFail ==
    ProbeFailed =>
        /\ up.probe.status = 401 =>
              /\ up.result = Failure("Authentication failed (probe)")
              /\ ~Issued("PUT")
        /\ up.probe.status = 404 =>
              /\ up.result = Failure("Upload folder not found")
              /\ ~Issued("PUT")
        /\ up.probe.status \notin {401, 404} =>
              (up.pc = "put" \/ Issued("PUT"))

\* C14: with one of the five settings missing, the upload issues no request
\* (neither PROPFIND nor PUT) and ends with a configuration error.
C14_MissingSettingsRefused ==
    (up.pc # "idle" /\ up.version = "secureStorage" /\ up.settings # SettingKeys) =>
        /\ up.requests = <<>>
        /\ up.pc \notin {"put", "probe"}
        /\ up.pc = "done" => up.result = Failure("configuration error")

----------------------------------------------------------------------------
(* Properties of the VideoPlayer *)

Starts(cmds) == {i \in 1..Len(cmds) : cmds[i] \in {"play", "replay"}}

Loads(cmds) == {i \in 1..Len(cmds) : cmds[i] = "replace"}

C5_RetryNowReloads ==
    hist.act = "RetryNow" => Loads(vp.cmds) # {}


\* C15: an unmount, a change of the uri and a readyToPlay event leave no retry
\* timeout pending; at most one is ever pending, only while the item is
\* mounted, and it re-requests the uri the item has now.
C15_TimerCancelled ==
    /\ hist.act \in {"Unmount", "UrlChange", "StatusReady"} => vp.timers = {}
    /\ ~vp.mounted => vp.timers = {}
    /\ Cardinality(vp.timers) <= 1
    /\ \A t \in vp.timers : t.uri = vp.uri /\ t.id = vp.retryTimeoutRef

\* an unmount has just cancelled a pending retry timeout
C15_Witness ==
    /\ hist.act = "Unmount"
    /\ hist.cancelled
    /\ vp.error = FailedToLoad
    /\ vp.timers = {}

\* C16: while isVisible is false, no reaction of the component to a player
\* event, to a retry timeout or to the loss of visibility itself calls play()
\* or replay().
C16_NoStartWhileInvisible ==
    ( /\ vp.mounted
      /\ ~vp.isVisible
      /\ hist.act \in {"SetVisible", "PauseEvent", "EndOfMedia", "StatusReady",
                       "StatusError", "TimerFire"} )
    => Starts(vp.cmds) = {}

\* C17: replayCount changes only by +1 on a natural end of the media and to 0
\* on the Replay button or a change of the uri, and hasReachedLimit changes
\* only in those steps; pauses, visibility, errors and retries leave both.
C17_ReplayCountChanges ==
    [][ /\ vp'.replayCount # vp.replayCount =>
              \/ hist'.act = "EndOfMedia" /\ vp'.replayCount = vp.replayCount + 1
              \/ hist'.act \in {"ManualReplay", "UrlChange"} /\ vp'.replayCount = 0
        /\ vp'.hasReachedLimit # vp.hasReachedLimit =>
              hist'.act \in {"EndOfMedia", "ManualReplay", "UrlChange"}
      ]_vars

\* C18: an error reported with retryCount < MAX_RETRIES sets error, clears
\* isLoading and leaves exactly one retry timeout pending, the one the ref
\* holds, although both statusChange listeners have set one.
C18_OneTimerPerError ==
    [][ (hist'.act = "StatusError" /\ vp.retryCount < MAX_RETRIES) =>
            /\ vp'.error = FailedToLoad
            /\ ~vp'.isLoading
            /\ Cardinality(vp'.timers) = 1
            /\ \A t \in vp'.timers :
                   /\ t.id = vp'.retryTimeoutRef
                   /\ t.uri = vp'.uri
                   /\ t.retryCount = vp'.retryCount
      ]_vars

\* an error during a retry (not the first load) has left its one timeout
C18_Witness ==
    /\ hist.act = "StatusError"
    /\ vp.retryCount > 0
    /\ vp.retryCount < MAX_RETRIES
    /\ vp.error = FailedToLoad
    /\ Cardinality(vp.timers) = 1

\* C19: "Retry Now" pressed while a retry timeout is pending cancels it and
\* re-requests the uri exactly once, retryCount going up by exactly 1.
C19_RetryNowCancelsAndReloads ==
    [][ (hist'.act = "RetryNow" /\ vp.timers # {}) =>
            /\ vp'.timers = {}
            /\ Cardinality(Loads(vp'.cmds)) = 1
            /\ vp'.retryCount = vp.retryCount + 1
      ]_vars

\* C20: the Replay button sets replayCount to 0, clears hasReachedLimit and
\* calls replay(), and leaves retryCount, error, isLoading and a pending
\* retry timeout as they are.
C20_ReplayFrame ==
    [][ hist'.act = "ManualReplay" =>
            /\ vp'.replayCount = 0
            /\ ~vp'.hasReachedLimit
            /\ Starts(vp'.cmds) # {}
            /\ vp'.retryCount = vp.retryCount
            /\ vp'.error = vp.error
            /\ vp'.isLoading = vp.isLoading
            /\ vp'.timers = vp.timers
      ]_vars

\* C21: the mount and every change of the uri leave isLoading true, error
\* null, replayCount 0, retryCount 0 and hasReachedLimit false, with no retry
\* timeout pending and the uri of the item requested.
C21_ResetOnUri ==
    (vp.mounted /\ hist.act \in {"none", "UrlChange"}) =>
        /\ vp.isLoading
        /\ vp.error = "null"
        /\ vp.replayCount = 0
        /\ vp.retryCount = 0
        /\ ~vp.hasReachedLimit
        /\ vp.timers = {}
        /\ vp.status = "loading"
        /\ Loads(vp.cmds) # {}

\* the uri changed while an error was shown and its retry was pending
C21_Witness ==
    /\ hist.act = "UrlChange"
    /\ hist.cancelled
    /\ vp.uri = "uriB"
    /\ vp.isLoading
    /\ vp.error = "null"
    /\ vp.retryCount = 0

\* C22: a readyToPlay event sets isLoading false, error null and retryCount
\* 0, and leaves replayCount and hasReachedLimit as they were.
C22_ReadyResets ==
    [][ hist'.act = "StatusReady" =>
            /\ ~vp'.isLoading
            /\ vp'.error = "null"
            /\ vp'.retryCount = 0
            /\ vp'.timers = {}
            /\ vp'.replayCount = vp.replayCount
            /\ vp'.hasReachedLimit = vp.hasReachedLimit
      ]_vars

\* a retry of an item that had already played has loaded
C22_Witness ==
    /\ hist.act = "StatusReady"
    /\ vp.replayCount > 0
    /\ vp.retryCount = 0
    /\ vp.error = "null"
    /\ ~vp.isLoading

\* C23: hasReachedLimit is true exactly when replayCount is MAX_REPLAYS.
C23_LimitIffCount ==
    vp.hasReachedLimit <=> vp.replayCount = MAX_REPLAYS

\* the limit has been reached, by pauses as well as by ends of the media
C23_Witness ==
    /\ vp.mounted
    /\ vp.hasReachedLimit
    /\ vp.replayCount = MAX_REPLAYS
    /\ ~hist.pure

\* C24: retryCount stays within 0..MAX_RETRIES and replayCount within
\* 0..MAX_REPLAYS, also when a handler runs with the values of the render
\* before the latest update.
C24_CountersBounded ==
    /\ vp.retryCount >= 0 /\ vp.retryCount <= MAX_RETRIES
    /\ vp.replayCount >= 0 /\ vp.replayCount <= MAX_REPLAYS

\* C30: while the item is mounted with the same uri, only the firing of the
\* retry timeout, "Retry Now" and a readyToPlay event remove a pending
\* timeout: every other step leaves it pending.
C30_TimerSurvives ==
    [][ ( /\ vp.mounted
          /\ vp.error # "null"
          /\ vp.timers # {}
          /\ vp.retryCount < MAX_RETRIES
          /\ hist'.act \notin {"TimerFire", "RetryNow", "StatusReady",
                               "UrlChange", "Unmount"} )
        => vp'.timers # {}
      ]_vars

----------------------------------------------------------------------------
(* Properties of the receiver's notifications list *)

\* no two entries of the list have the same url
DistinctUrls ==
    \A k \in 1..Len(notifications) :
        \A j \in 1..Len(notifications) :
            notifications[k].url = notifications[j].url => k = j

HasUrl(list, u) == \E k \in 1..Len(list) : list[k].url = u

\* C6: a payload with mediaUrl u and a mediaType leaves the list as it is
\* when an entry has url u, and else puts the new entry in front of the
\* unchanged list; a list free of duplicates stays free of them, and no
\* entry is lost or moved.
C6_DedupPrepend ==
    [][ (lastOp'.op = "push" /\ ~InvalidData(lastOp')) =>
          LET u == lastOp'.mediaUrl
          IN /\ HasUrl(notifications, u) => notifications' = notifications
             /\ ~HasUrl(notifications, u) =>
                  /\ Len(notifications') = Len(notifications) + 1
                  /\ notifications'[1].url = u
                  /\ notifications'[1].type = lastOp'.mediaType
                  /\ \A k \in 1..Len(notifications) :
                         notifications'[k + 1] = notifications[k]
             /\ DistinctUrls => DistinctUrls'
             /\ \A k \in 1..Len(notifications) :
                    notifications'[Len(notifications') - Len(notifications) + k]
                        = notifications[k]
      ]_vars

\* C27: a payload changes the list only when it has a mediaUrl and a
\* mediaType that is image or video; any other payload leaves the list as it
\* is.
C27_OnlyValidTypesStored ==
    [][ (lastOp'.op = "push" /\ notifications' # notifications) =>
            /\ ~InvalidData(lastOp')
            /\ lastOp'.mediaType \in {"image", "video"}
      ]_vars

\* C6 witness: a payload with a stored url arrived and was dropped, the list
\* holding several entries of distinct urls
C6_Witness ==
    /\ lastOp.op = "push"
    /\ ~InvalidData(lastOp)
    /\ Len(notifications) = MaxUrls
    /\ DistinctUrls
    /\ notifications[1].url # lastOp.mediaUrl
    /\ HasUrl(notifications, lastOp.mediaUrl)

----------------------------------------------------------------------------
(* Properties of convert-mov-to-mp4.sh beside the server *)

\* C29: the script starts its ffmpeg on a file only if the server has not
\* already produced the mp4 of that file.
C29_NoDoubleConversion ==
    [][ (watch.pc = "lsof" /\ watch'.pc = "ffmpeg") => watch.file \notin watch.produced ]_vars

====
